---- MODULE Spec2Model ----
(***************************************************************************)
(* Model of src/Transformer/run.py: extract_dataflow (comment stripping,   *)
(* parsing, token indexing, dataflow analysis, graph pruning),             *)
(* convert_examples_to_features (subword alignment, truncation, sentinels, *)
(* padding) and TextDataset.__init__ (the batch mapped over a worker pool).*)
(*                                                                         *)
(* The stripper, the grammar, the per-language analyzer and the tokenizer  *)
(* are collaborators of run.py.  A record therefore carries, next to its   *)
(* JSON fields, what these collaborators do on it: whether stripping       *)
(* raises, whether parsing raises, and what the analyzer emits (a raw edge *)
(* list, or an exception).                                                 *)
(***************************************************************************)
EXTENDS Integers, Sequences, FiniteSets, TLC

\* ------------------------------------------------------------------ bounds
MaxEdges == 2      \* longest raw edge list the analyzer emits
MaxIdx == 1        \* token indices of edges range over 0..MaxIdx
MaxSrc == 1        \* longest source_indices list of an edge
MaxTokens == 2     \* most lexemes in original_string
MaxNl == 1         \* most words in docstring_tokens
MaxCodeLen == 4    \* args.code_length ranges over 0..MaxCodeLen
MaxNlLen == 3      \* args.nl_length ranges over 0..MaxNlLen
MaxRecs == 3       \* most lines in the data file
NWorkers == 2      \* processes of the pool

\* ------------------------------------------------- tokenizer special ids
cls_token_id == 0
pad_token_id == 1
sep_token_id == 2

\* ------------------------------------------------------------- sequences
RECURSIVE SeqsUpTo(_, _)
SeqsUpTo(S, n) ==
    IF n = 0 THEN {<<>>}
    ELSE LET shorter == SeqsUpTo(S, n - 1)
         IN  shorter \cup {Append(s, x) : s \in {t \in shorter : Len(t) = n - 1}, x \in S}

Min(a, b) == IF a < b THEN a ELSE b
Max(a, b) == IF a > b THEN a ELSE b

\* Mutant of SliceTo: the truncation keeps the tail of the list.
SliceTo_tail(xs, k) ==
    LET n == IF k >= 0 THEN Min(k, Len(xs)) ELSE Max(Len(xs) + k, 0)
    IN  SubSeq(xs, Len(xs) - n + 1, Len(xs))

\* Python's xs[:k]: a negative k counts from the end of the list.
SliceTo(xs, k) ==
    LET n == IF k >= 0 THEN Min(k, Len(xs)) ELSE Max(Len(xs) + k, 0)
    IN  SubSeq(xs, 1, n)

\* Python's [x] * n: the empty list when n <= 0.
Repeat(x, n) == [i \in 1..Max(n, 0) |-> x]

RECURSIVE Flatten(_)
Flatten(xss) == IF xss = <<>> THEN <<>> ELSE Head(xss) \o Flatten(Tail(xss))

\* ------------------------------------------------------------ the inputs
CodeLexemes == {"x", "ab", "#c"}
NlWords == {"x", "ab"}
Edges == [idx : 0..MaxIdx, src : SeqsUpTo(0..MaxIdx, MaxSrc)]
RawDFGs == SeqsUpTo(Edges, MaxEdges)
Analyses == [raises : {FALSE}, edges : RawDFGs] \cup {[raises |-> TRUE, edges |-> <<>>]}

Args == [code_length : 0..MaxCodeLen, nl_length : 0..MaxNlLen, lang : {"python", "php"}]

\* ------------------------------------------------------ extract_dataflow
\* The stripper removes the comment lexemes.
remove_comments_and_docstrings(code) == SelectSeq(code, LAMBDA t : t # "#c")

\* The code handed to the parser: stripped unless stripping raised, and
\* wrapped in the script delimiters for php.
StrippedCode(js, lang) ==
    LET code == IF js.strip = "ok"
                THEN remove_comments_and_docstrings(js.original_string)
                ELSE js.original_string
    IN  IF lang = "php" THEN <<"<?php">> \o code \o <<"?>">> ELSE code

\* sorted(DFG, key=lambda x: x[1]) as the sequence of positions of DFG in
\* sorted order.  The sort is stable: a position is inserted behind every
\* position whose key is not larger.
RECURSIVE InsertByKey(_, _, _)
InsertByKey(order, p, DFG) ==
    IF order = <<>> THEN <<p>>
    ELSE IF DFG[Head(order)].idx <= DFG[p].idx
         THEN <<Head(order)>> \o InsertByKey(Tail(order), p, DFG)
         ELSE <<p>> \o order

RECURSIVE SortedOrderUpTo(_, _)
SortedOrderUpTo(DFG, n) ==
    IF n = 0 THEN <<>> ELSE InsertByKey(SortedOrderUpTo(DFG, n - 1), n, DFG)

\* Mutant of SortedOrder: an unstable sort, ties in reverse emission order.
SortedOrder_unstable(DFG) ==
    LET n == Len(DFG)
        rev == [k \in 1..n |-> DFG[n + 1 - k]]
        o == SortedOrderUpTo(rev, n)
    IN  [k \in 1..n |-> n + 1 - o[k]]

SortedOrder(DFG) == SortedOrderUpTo(DFG, Len(DFG))

\* The set indexs: the loop over the edges d, adding d[1] when d[-1] is not
\* empty and every x of d[-1].
RECURSIVE indexsUpTo(_, _)
indexsUpTo(DFG, n) ==
    IF n = 0 THEN {}
    ELSE LET d == DFG[n]
         IN  indexsUpTo(DFG, n - 1)
               \cup (IF Len(d.src) # 0 THEN {d.idx} ELSE {})
               \cup {d.src[k] : k \in 1..Len(d.src)}

\* Mutant of indexs: d[1] is added whether or not d[-1] is empty.
indexs_always(DFG) == indexsUpTo(DFG, Len(DFG)) \cup {DFG[k].idx : k \in 1..Len(DFG)}

\* Mutant of indexs: only the members of the source lists are added.
indexs_sources_only(DFG) == UNION {{DFG[k].src[q] : q \in 1..Len(DFG[k].src)} : k \in 1..Len(DFG)}

indexs(DFG) == indexsUpTo(DFG, Len(DFG))

\* Mutant of KeptOrder: the filter keeps the edges with a non-empty d[-1].
KeptOrder_nonempty(DFG) == SelectSeq(SortedOrder(DFG), LAMBDA p : DFG[p].src # <<>>)

\* new_DFG as positions of the raw list: the sorted positions whose edge has
\* its d[1] in indexs.
KeptOrder(DFG) ==
    LET S == indexs(DFG)
    IN  SelectSeq(SortedOrder(DFG), LAMBDA p : DFG[p].idx \in S)

EdgesAt(DFG, order) == [k \in 1..Len(order) |-> DFG[order[k]]]

\* Lines 90-101: sort, build indexs, filter.
Prune(DFG) == EdgesAt(DFG, KeptOrder(DFG))

\* Mutant of extract_dataflow: an analysis failure is handled like a parse
\* failure recovered with an empty token list.
extract_dataflow_drops_tokens(js, lang) ==
    IF js.parse = "ParseFailure"
    THEN [raised |-> TRUE, code_tokens |-> <<>>, dfg |-> <<>>, origin |-> <<>>]
    ELSE IF js.analysis.raises
    THEN [raised |-> FALSE, code_tokens |-> <<>>, dfg |-> <<>>, origin |-> <<>>]
    ELSE [raised |-> FALSE,
          code_tokens |-> StrippedCode(js, lang),
          dfg |-> Prune(js.analysis.edges),
          origin |-> KeptOrder(js.analysis.edges)]

\* Mutant of extract_dataflow: the returned token list keeps only the tokens
\* that are the target of a surviving edge.
extract_dataflow_pruned_tokens(js, lang) ==
    IF js.parse = "ParseFailure"
    THEN [raised |-> TRUE, code_tokens |-> <<>>, dfg |-> <<>>, origin |-> <<>>]
    ELSE LET DFG == IF js.analysis.raises THEN <<>> ELSE js.analysis.edges
             toks == StrippedCode(js, lang)
             kept == {Prune(DFG)[k].idx : k \in 1..Len(Prune(DFG))}
             at == SelectSeq([k \in 1..Len(toks) |-> k], LAMBDA k : (k - 1) \in kept)
         IN  [raised |-> FALSE,
              code_tokens |-> [k \in 1..Len(at) |-> toks[at[k]]],
              dfg |-> Prune(DFG),
              origin |-> KeptOrder(DFG)]

\* extract_dataflow(code, parser, lang).  `raised` tells that the call ends
\* in an exception: when a step before the assignment of code_tokens raises,
\* the outer handler sets dfg = [] and the return statement then reads the
\* unbound local code_tokens (UnboundLocalError).  `origin` lists, for each
\* returned edge, its position in the list the analyzer emitted.
extract_dataflow(js, lang) ==
    IF js.parse = "ParseFailure"
    THEN [raised |-> TRUE, code_tokens |-> <<>>, dfg |-> <<>>, origin |-> <<>>]
    ELSE LET DFG == IF js.analysis.raises THEN <<>> ELSE js.analysis.edges
         IN  [raised |-> FALSE,
              code_tokens |-> StrippedCode(js, lang),
              dfg |-> Prune(DFG),
              origin |-> KeptOrder(DFG)]

\* ------------------------------------------------------------- tokenizer
\* Byte-pair pieces of one word; g marks a piece that starts behind a space.
BPE(x) ==
    CASE x = "ab" -> <<"a", "b">>
      [] x = "<?php" -> <<"<?", "php">>
      [] OTHER -> <<x>>

Piece(g, s) == [g |-> g, s |-> s]

\* tokenizer.tokenize(x)
tokenize(x) == [k \in 1..Len(BPE(x)) |-> Piece(FALSE, BPE(x)[k])]

\* tokenizer.tokenize('@ ' + x)[1:]
tokenize_after_space(x) == [k \in 1..Len(BPE(x)) |-> Piece(k = 1, BPE(x)[k])]

\* The pieces of a list of words: of each code token (line 132), and of the
\* space-joined description (line 148).
RECURSIVE tokenize_words(_, _)
tokenize_words(xs, n) ==
    IF n = 0 THEN <<>>
    ELSE Append(tokenize_words(xs, n - 1),
                IF n = 1 THEN tokenize(xs[n]) ELSE tokenize_after_space(xs[n]))

cls_token == Piece(FALSE, "<s>")
sep_token == Piece(FALSE, "</s>")

Subwords == <<"x", "a", "b", "#c", "<?", "php", "?>">>

SubwordPos(s) == CHOOSE k \in 1..Len(Subwords) : Subwords[k] = s

\* tokenizer.convert_tokens_to_ids, one token
token_id(t) ==
    IF t = cls_token THEN cls_token_id
    ELSE IF t = sep_token THEN sep_token_id
    ELSE 2 * SubwordPos(t.s) + 2 + (IF t.g THEN 1 ELSE 0)

convert_tokens_to_ids(ts) == [k \in 1..Len(ts) |-> token_id(ts[k])]

\* ------------------------------------------ convert_examples_to_features
\* Mutant of WrapTokens: no truncation.
WrapTokens_untruncated(pieces, length) == <<cls_token>> \o pieces \o <<sep_token>>

\* Lines 137-141 and 148-152: truncate, wrap with the sentinels.
WrapTokens(pieces, length) == <<cls_token>> \o SliceTo(pieces, length - 2) \o <<sep_token>>

\* Lines 139-141 and 150-152: ids, then right padding.
PadIds(tokens, length) ==
    LET ids == convert_tokens_to_ids(tokens)
    IN  ids \o Repeat(pad_token_id, length - Len(ids))

\* The subword pieces of the code tokens, concatenated (lines 132-136).
CodePieces(code_tokens) == Flatten(tokenize_words(code_tokens, Len(code_tokens)))

\* The subword pieces of the description (lines 143, 148).
NlPieces(js) == Flatten(tokenize_words(js.docstring_tokens, Len(js.docstring_tokens)))

\* InputFeatures(code_tokens, code_ids, nl_tokens, nl_ids, url), built from
\* the code tokens extract_dataflow returned.
InputFeatures(js, a, code_tokens) ==
    LET ct == WrapTokens(CodePieces(code_tokens), a.code_length)
        nt == WrapTokens(NlPieces(js), a.nl_length)
    IN  [code_tokens |-> ct,
         code_ids |-> PadIds(ct, a.code_length),
         nl_tokens |-> nt,
         nl_ids |-> PadIds(nt, a.nl_length),
         url |-> js.url]

\* ------------------------------------------------------------- the state
VARIABLES
    args,        \* the configuration: code_length, nl_length, lang
    data,        \* the records read from the file, in line order
    next_task,   \* position in data of the next record to hand to a worker
    wpc,         \* per worker: "idle", "running" or "extracted"
    wtask,       \* per worker: the position in data it is working on
    wext,        \* per worker: what extract_dataflow returned
    results,     \* per record: the slot pool.map fills with the record's outcome
    finished,    \* positions of the records in the order their workers finished
    examples,    \* self.examples
    status       \* "mapping", "done", or "raised" when pool.map re-raised

vars == <<args, data, next_task, wpc, wtask, wext, results, finished, examples, status>>

Workers == 1..NWorkers

NoExtract == [raised |-> FALSE, code_tokens |-> <<>>, dfg |-> <<>>, origin |-> <<>>]
Pending == [st |-> "pending", val |-> <<>>]

InitPool ==
    /\ next_task = 1
    /\ wpc = [w \in Workers |-> "idle"]
    /\ wtask = [w \in Workers |-> 0]
    /\ wext = [w \in Workers |-> NoExtract]
    /\ results = [i \in 1..Len(data) |-> Pending]
    /\ finished = <<>>
    /\ examples = <<>>
    /\ status = "mapping"

\* ----------------------------------------------------------- the actions
\* Mutant of SetResult: outcomes are stored in the order the tasks finish.
SetResult_in_finish_order(res, i, done, r) == [res EXCEPT ![Len(done) + 1] = r]

\* The slot of record i is filled with the outcome of its task.
SetResult(res, i, done, r) == [res EXCEPT ![i] = r]

\* A free worker of the pool takes the next record of data.
Dispatch(w) ==
    /\ status = "mapping"
    /\ wpc[w] = "idle"
    /\ next_task <= Len(data)
    /\ wtask' = [wtask EXCEPT ![w] = next_task]
    /\ wpc' = [wpc EXCEPT ![w] = "running"]
    /\ next_task' = next_task + 1
    /\ UNCHANGED <<args, data, wext, results, finished, examples, status>>

\* Line 131: extract_dataflow returns its pair.
ExtractReturn(w) ==
    /\ wpc[w] = "running"
    /\ LET r == extract_dataflow(data[wtask[w]], args.lang)
       IN  /\ ~r.raised
           /\ wext' = [wext EXCEPT ![w] = r]
    /\ wpc' = [wpc EXCEPT ![w] = "extracted"]
    /\ UNCHANGED <<args, data, next_task, wtask, results, finished, examples, status>>

\* Line 131: extract_dataflow raises; convert_examples_to_features has no
\* handler, so the exception becomes the outcome of the worker's task.
ExtractRaise(w) ==
    /\ wpc[w] = "running"
    /\ extract_dataflow(data[wtask[w]], args.lang).raised
    /\ results' = SetResult(results, wtask[w], finished,
                            [st |-> "UnboundLocalError", val |-> <<>>])
    /\ finished' = Append(finished, wtask[w])
    /\ wpc' = [wpc EXCEPT ![w] = "idle"]
    /\ wext' = [wext EXCEPT ![w] = NoExtract]
    /\ UNCHANGED <<args, data, next_task, wtask, examples, status>>

\* Lines 132-154: the rest of convert_examples_to_features; the returned
\* InputFeatures is the outcome of the worker's task.
Assemble(w) ==
    /\ wpc[w] = "extracted"
    /\ results' = SetResult(results, wtask[w], finished,
                            [st |-> "ok",
                             val |-> <<InputFeatures(data[wtask[w]], args, wext[w].code_tokens)>>])
    /\ finished' = Append(finished, wtask[w])
    /\ wpc' = [wpc EXCEPT ![w] = "idle"]
    /\ UNCHANGED <<args, data, next_task, wtask, wext, examples, status>>

AllDone == \A i \in 1..Len(data) : results[i].st # "pending"
SomeRaised == \E i \in 1..Len(data) : results[i].st \notin {"pending", "ok"}

\* Line 176: every task succeeded; pool.map returns the list of outcomes.
MapReturn ==
    /\ status = "mapping"
    /\ AllDone
    /\ ~SomeRaised
    /\ examples' = [i \in 1..Len(data) |-> results[i].val[1]]
    /\ status' = "done"
    /\ UNCHANGED <<args, data, next_task, wpc, wtask, wext, results, finished>>

\* Line 176: some task raised; pool.map re-raises once every task is over,
\* and TextDataset.__init__ has no handler: self.examples stays [].
MapRaise ==
    /\ status = "mapping"
    /\ AllDone
    /\ SomeRaised
    /\ status' = "raised"
    /\ UNCHANGED <<args, data, next_task, wpc, wtask, wext, results, finished, examples>>

Next ==
    \/ \E w \in Workers : Dispatch(w)
    \/ \E w \in Workers : ExtractReturn(w)
    \/ \E w \in Workers : ExtractRaise(w)
    \/ \E w \in Workers : Assemble(w)
    \/ MapReturn
    \/ MapRaise

\* ---------------------------------------------------- the specifications
\* A batch of sample records under one configuration.
SampleArgs == [code_length |-> MaxCodeLen, nl_length |-> MaxNlLen, lang |-> "python"]

Sample(code, strip, parse, analysis, url) ==
    [original_string |-> code, strip |-> strip, parse |-> parse, analysis |-> analysis,
     docstring_tokens |-> <<"ab">>, url |-> url]

SampleRecords ==
    {Sample(<<"x", "ab">>, "ok", "ok",
            [raises |-> FALSE, edges |-> <<[idx |-> 1, src |-> <<0>>], [idx |-> 0, src |-> <<>>]>>], "u1"),
     Sample(<<"ab", "#c">>, "StripFailure", "ok", [raises |-> TRUE, edges |-> <<>>], "u2"),
     Sample(<<"x">>, "ok", "ParseFailure", [raises |-> TRUE, edges |-> <<>>], "u1"),
     Sample(<<"#c", "x">>, "ok", "ok", [raises |-> FALSE, edges |-> <<[idx |-> 0, src |-> <<>>]>>], "u2")}

Init ==
    /\ args = SampleArgs
    /\ data \in SeqsUpTo(SampleRecords, MaxRecs)
    /\ InitPool

Spec == Init /\ [][Next]_vars

\* One record with every analyzer outcome, under one configuration.
InitDFG ==
    /\ args = SampleArgs
    /\ \E an \in Analyses, p \in {"ok", "ParseFailure"} :
          data = <<Sample(<<"x", "ab">>, "ok", p, an, "u1")>>
    /\ InitPool

SpecDFG == InitDFG /\ [][Next]_vars

\* One record with every source, description and configuration.
FeatRecords ==
    [original_string : SeqsUpTo(CodeLexemes, MaxTokens),
     strip : {"ok", "StripFailure"},
     parse : {"ok", "ParseFailure"},
     analysis : {[raises |-> FALSE, edges |-> <<[idx |-> 0, src |-> <<>>]>>]},
     docstring_tokens : SeqsUpTo(NlWords, MaxNl),
     url : {"u1"}]

InitFeat ==
    /\ args \in Args
    /\ \E r \in FeatRecords : data = <<r>>
    /\ InitPool

SpecFeat == InitFeat /\ [][Next]_vars

\* The same record twice in one batch, with two analyzer outcomes: two runs
\* of convert_examples_to_features that differ in the dataflow graph only.
PairAnalyses ==
    [raises : {FALSE}, edges : {es \in RawDFGs : Len(es) <= 1}]
        \cup {[raises |-> TRUE, edges |-> <<>>]}

PairSources ==
    {[code |-> <<"x", "ab">>, strip |-> "ok"], [code |-> <<"#c", "x">>, strip |-> "StripFailure"]}

InitPair ==
    /\ args = SampleArgs
    /\ \E c \in PairSources, p \in {"ok", "ParseFailure"}, a1 \in PairAnalyses, a2 \in PairAnalyses :
          data = <<Sample(c.code, c.strip, p, a1, "u1"), Sample(c.code, c.strip, p, a2, "u1")>>
    /\ InitPool

SpecPair == InitPair /\ [][Next]_vars

\* ------------------------------------------------------------ the claims
Range(f) == {f[k] : k \in DOMAIN f}

\* The raw edge list the pruning step of worker w's record starts from.
RawOf(w) ==
    LET a == data[wtask[w]].analysis
    IN  IF a.raises THEN <<>> ELSE a.edges

Extracted(w) == wpc[w] = "extracted"

\* The Example of record i, once its task returned one.
HasExample(i) == results[i].st = "ok"
ExampleOf(i) == results[i].val[1]

\* The subword pieces of record i's code tokens, before truncation.
PiecesOf(i) == CodePieces(StrippedCode(data[i], args.lang))

\* C1 as stated: for every code_length and nl_length, every returned Example
\* has len(code_ids) = code_length and len(nl_ids) = nl_length.
C1_FixedLengthAnyConfig ==
    \A i \in 1..Len(data) :
        HasExample(i) =>
            /\ Len(ExampleOf(i).code_ids) = args.code_length
            /\ Len(ExampleOf(i).nl_ids) = args.nl_length

\* C1 amended: every returned Example has len(code_ids) = code_length when
\* code_length >= 2, and len(nl_ids) = nl_length when nl_length >= 2, whether
\* the pieces are fewer than, as many as, or more than the limit leaves room for.
C1_FixedLength ==
    \A i \in 1..Len(data) :
        HasExample(i) =>
            /\ args.code_length >= 2 => Len(ExampleOf(i).code_ids) = args.code_length
            /\ args.nl_length >= 2 => Len(ExampleOf(i).nl_ids) = args.nl_length

\* C1 witness: an Example whose code side was truncated and whose text side
\* was padded.
C1_Witness ==
    \E i \in 1..Len(data) :
        /\ HasExample(i)
        /\ args.code_length >= 2
        /\ args.nl_length >= 2
        /\ Len(PiecesOf(i)) > args.code_length - 2
        /\ Len(NlPieces(data[i])) < args.nl_length - 2

\* C2 as stated: a record whose parse fails still yields an Example, whose
\* code_ids are the begin sentinel, the end sentinel, then pad ids up to
\* code_length; its task does not raise.
C2_ParseFailureYieldsEmptyExample ==
    \A i \in 1..Len(data) :
        (data[i].parse = "ParseFailure" /\ results[i].st # "pending") =>
            /\ HasExample(i)
            /\ ExampleOf(i).code_ids =
                   <<cls_token_id, sep_token_id>>
                       \o [k \in 1..(args.code_length - 2) |-> pad_token_id]

\* C3 as stated: pool.map never re-raises a record's failure, and the batch
\* completes with one Example per input record.
C3_BatchNeverAborts ==
    /\ status # "raised"
    /\ status = "done" => Len(examples) = Len(data)

\* Whether index t occurs in the source_indices of the k-th edge of es.
InSources(es, k, t) == \E q \in 1..Len(es[k].src) : es[k].src[q] = t

\* C4 as stated: an edge with empty source_indices survives only if its
\* target_index occurs in the source_indices of some other surviving edge.
C4_EmptySourceOnlyIfReferenced ==
    \A w \in Workers :
        Extracted(w) =>
            \A k \in 1..Len(wext[w].dfg) :
                wext[w].dfg[k].src = <<>> =>
                    \E j \in (1..Len(wext[w].dfg)) \ {k} :
                        InSources(wext[w].dfg, j, wext[w].dfg[k].idx)

\* C4 amended: an edge with empty source_indices survives only if its
\* target_index occurs in the source_indices of some other surviving edge or
\* is the target_index of some other surviving edge with non-empty
\* source_indices; an empty-source edge whose target is neither is dropped.
C4_EmptySourceOnlyIfUsed ==
    \A w \in Workers :
        Extracted(w) =>
            LET dfg == wext[w].dfg
                raw == RawOf(w)
            IN  /\ \A k \in 1..Len(dfg) :
                       dfg[k].src = <<>> =>
                           \E j \in (1..Len(dfg)) \ {k} :
                               \/ InSources(dfg, j, dfg[k].idx)
                               \/ dfg[j].idx = dfg[k].idx /\ dfg[j].src # <<>>
                /\ \A p \in 1..Len(raw) :
                       (/\ raw[p].src = <<>>
                        /\ \A j \in 1..Len(raw) :
                               /\ ~InSources(raw, j, raw[p].idx)
                               /\ ~(raw[j].idx = raw[p].idx /\ raw[j].src # <<>>))
                           => p \notin Range(wext[w].origin)

\* C4 witness: an empty-source edge was kept although no source list names
\* its target: another edge with sources has the same target.
C4_Witness ==
    \E w \in Workers :
        /\ Extracted(w)
        /\ \E k \in 1..Len(wext[w].dfg) :
               /\ wext[w].dfg[k].src = <<>>
               /\ \A j \in 1..Len(wext[w].dfg) : ~InSources(wext[w].dfg, j, wext[w].dfg[k].idx)

\* C5: pruning is idempotent: applied to the edge list extract_dataflow
\* returned, it returns the same edge sequence.
C5_PruneIdempotent ==
    \A w \in Workers : Extracted(w) => Prune(wext[w].dfg) = wext[w].dfg

\* C5 witness: a returned edge list of at least two edges, out of a raw list
\* that was not sorted.
C5_Witness ==
    \E w \in Workers :
        /\ Extracted(w)
        /\ Len(wext[w].dfg) >= 2
        /\ wext[w].dfg # RawOf(w)

\* C6: when the analyzer raises after parsing and token indexing succeeded,
\* extract_dataflow does not raise and returns the full code-token list with
\* an empty graph.
C6_AnalysisFailureKeepsTokens ==
    /\ \A w \in Workers :
           (Extracted(w) /\ data[wtask[w]].analysis.raises) =>
               /\ wext[w].code_tokens = StrippedCode(data[wtask[w]], args.lang)
               /\ wext[w].dfg = <<>>
    /\ \A w \in Workers :
           (wpc[w] = "running" /\ data[wtask[w]].parse = "ok"
                /\ data[wtask[w]].analysis.raises) => ENABLED ExtractReturn(w)
    /\ \A i \in 1..Len(data) :
           (data[i].parse = "ok" /\ data[i].analysis.raises) =>
               results[i].st \in {"pending", "ok"}

\* C6 witness: extract_dataflow returned on a record whose analysis raised,
\* with a non-empty token list.
C6_Witness ==
    \E w \in Workers :
        /\ Extracted(w)
        /\ data[wtask[w]].analysis.raises
        /\ wext[w].code_tokens # <<>>

\* The Example of a record, as a function of the record and the configuration.
FeaturesOf(js, a) == InputFeatures(js, a, extract_dataflow(js, a.lang).code_tokens)

\* C7: whatever the assignment of records to workers and the order in which
\* they finish, examples[i] is the Example of the i-th record, a function of
\* that record and the configuration only.
C7_ExamplesInInputOrder ==
    status = "done" =>
        /\ Len(examples) = Len(data)
        /\ \A i \in 1..Len(data) : examples[i] = FeaturesOf(data[i], args)

\* C7 witness: a finished batch of three different records, more records
\* than workers, whose second record finished first.
C7_Witness ==
    /\ status = "done"
    /\ Len(data) > NWorkers
    /\ finished[1] = 2
    /\ \A i, j \in 1..Len(data) : i # j => examples[i] # examples[j]

\* C8 as stated: code_ids is the begin sentinel, the ids of the first
\* min(n, code_length - 2) pieces in order, the end sentinel, then pad ids only.
Layout(ids, pieces, length) ==
    LET k == Min(Len(pieces), length - 2)
    IN  /\ k + 2 \in 1..Len(ids)
        /\ ids[1] = cls_token_id
        /\ \A j \in 1..k : ids[j + 1] = token_id(pieces[j])
        /\ ids[k + 2] = sep_token_id
        /\ \A j \in (k + 3)..Len(ids) : ids[j] = pad_token_id

C8_CodeIdsLayoutAnyConfig ==
    \A i \in 1..Len(data) :
        HasExample(i) => Layout(ExampleOf(i).code_ids, PiecesOf(i), args.code_length)

\* C8 amended: when code_length >= 2, code_ids is the begin sentinel, the ids
\* of the first min(n, code_length - 2) pieces in order, the end sentinel, then
\* pad ids only up to position code_length.
C8_CodeIdsLayout ==
    \A i \in 1..Len(data) :
        (HasExample(i) /\ args.code_length >= 2) =>
            /\ Layout(ExampleOf(i).code_ids, PiecesOf(i), args.code_length)
            /\ Len(ExampleOf(i).code_ids) = args.code_length

\* C8 witness: an Example whose pieces were cut at the tail, with at least two
\* pieces kept.
C8_Witness ==
    \E i \in 1..Len(data) :
        /\ HasExample(i)
        /\ args.code_length >= 4
        /\ Len(PiecesOf(i)) > args.code_length - 2

\* C9: the returned edge list is ordered by target_index ascending, and edges
\* with the same target_index keep the order in which the analyzer emitted them.
C9_SortedStable ==
    \A w \in Workers :
        Extracted(w) =>
            LET dfg == wext[w].dfg
                origin == wext[w].origin
            IN  /\ Len(origin) = Len(dfg)
                /\ \A k \in 1..Len(dfg) :
                       origin[k] \in 1..Len(RawOf(w)) /\ dfg[k] = RawOf(w)[origin[k]]
                /\ \A i, j \in 1..Len(dfg) :
                       i < j =>
                           /\ dfg[i].idx <= dfg[j].idx
                           /\ dfg[i].idx = dfg[j].idx => origin[i] < origin[j]

\* C9 witness: two different surviving edges with the same target_index.
C9_Witness ==
    \E w \in Workers :
        /\ Extracted(w)
        /\ \E i, j \in 1..Len(wext[w].dfg) :
               /\ i < j
               /\ wext[w].dfg[i].idx = wext[w].dfg[j].idx
               /\ wext[w].dfg[i] # wext[w].dfg[j]

\* C10: an edge of the raw list survives iff its target_index is in S, the
\* targets of the edges with non-empty source_indices together with every
\* index in a source list; no edge is added or altered.
C10_SurvivesIffInS ==
    \A w \in Workers :
        Extracted(w) =>
            LET raw == RawOf(w)
                dfg == wext[w].dfg
                origin == wext[w].origin
                S == {raw[p].idx : p \in {q \in 1..Len(raw) : raw[q].src # <<>>}}
                       \cup UNION {Range(raw[p].src) : p \in 1..Len(raw)}
            IN  /\ Range(origin) = {p \in 1..Len(raw) : raw[p].idx \in S}
                /\ Cardinality(Range(origin)) = Len(origin)
                /\ Len(dfg) = Len(origin)
                /\ \A k \in 1..Len(dfg) : dfg[k] = raw[origin[k]]

\* C10 witness: a raw list of which one edge survived and one was dropped.
C10_Witness ==
    \E w \in Workers :
        /\ Extracted(w)
        /\ Len(wext[w].dfg) >= 1
        /\ Len(wext[w].dfg) < Len(RawOf(w))

\* Two records that differ at most in what the analyzer does on them.
SameButAnalysis(r1, r2) == [r1 EXCEPT !.analysis = r2.analysis] = r2

\* C11: the Example does not depend on the dataflow graph: two runs on the
\* same record, tokenizer and configuration whose analyzer outcomes differ
\* (edge lists, or an analysis failure) return identical code_tokens,
\* code_ids, nl_tokens, nl_ids and url; and the code-token list handed to
\* the assembler holds every leaf token, whatever was pruned from the graph:
\* when the pieces fit into code_length they are all in the Example.
C11_ExampleIgnoresGraph ==
    /\ \A i, j \in 1..Len(data) :
           (HasExample(i) /\ HasExample(j) /\ SameButAnalysis(data[i], data[j])) =>
               ExampleOf(i) = ExampleOf(j)
    /\ \A w \in Workers :
           Extracted(w) => wext[w].code_tokens = StrippedCode(data[wtask[w]], args.lang)
    /\ \A i \in 1..Len(data) :
           (HasExample(i) /\ Len(PiecesOf(i)) <= args.code_length - 2) =>
               ExampleOf(i).code_tokens = <<cls_token>> \o PiecesOf(i) \o <<sep_token>>

\* C11 witness: both runs returned an Example; in the first the analyzer
\* emitted an edge that pruning dropped, in the second it raised.
C11_Witness ==
    /\ Len(data) = 2
    /\ HasExample(1) /\ HasExample(2)
    /\ data[2].analysis.raises
    /\ Len(data[1].analysis.edges) > Len(Prune(data[1].analysis.edges))
    /\ Len(PiecesOf(1)) <= args.code_length - 2

====
